---- MODULE Spec2Model ----
\* JsonTreeViewerWidget: conversion of a parsed JSON value into the tree of
\* FTreeItem rows shown by the widget (ParseNode / BuildTree), and the widget
\* state driven by InitJsonTree and RebuildWidget.
EXTENDS Integers, Sequences, FiniteSets, TLC

\* ------------------------------------------------------------------------
\* Bounds
\* ------------------------------------------------------------------------
\* longest array / largest object generated for the conversion checks
MaxLen == 2
\* ------------------------------------------------------------------------
\* JSON values (FJsonValue).  A value is a record with a Type field (EJson)
\* and the payload of that type.  A number keeps the literal it was read
\* from; TryGetNumber turns the literal into the double.
\* ------------------------------------------------------------------------
JString(s)  == [Type |-> "String", str |-> s]
JNumber(l)  == [Type |-> "Number", lit |-> l]
JBoolean(b) == [Type |-> "Boolean", b |-> b]
JNull       == [Type |-> "Null"]
JObject(ps) == [Type |-> "Object", Values |-> ps]
JArray(es)  == [Type |-> "Array", elems |-> es]

\* a number literal: integer part and the digits written after the point
\* (<<>> when the literal has no fractional part)
Lit(i, f) == [ip |-> i, fp |-> f]

RECURSIVE TrimZeros(_)
TrimZeros(ds) ==
    IF ds # <<>> /\ ds[Len(ds)] = 0 THEN TrimZeros(SubSeq(ds, 1, Len(ds) - 1)) ELSE ds

RECURSIVE Digits(_)
Digits(ds) == IF ds = <<>> THEN "" ELSE ToString(Head(ds)) \o Digits(Tail(ds))

\* the text of a number as written in the JSON document
NumberText(l) == IF l.fp = <<>> THEN ToString(l.ip) ELSE ToString(l.ip) \o "." \o Digits(l.fp)

\* FJsonValue::TryGetNumber: the double a literal denotes (trailing zeros of
\* the fraction carry no value)
TryGetNumber(l) == [ip |-> l.ip, fp |-> TrimZeros(l.fp)]

\* a formatting that prints the shortest text of the double
SanitizeFloat_Shortest(d) == IF d.fp = <<>> THEN ToString(d.ip) ELSE ToString(d.ip) \o "." \o Digits(d.fp)

\* FString::SanitizeFloat(double): the fraction without trailing zeros, but
\* never fewer than one fractional digit
SanitizeFloat(d) == ToString(d.ip) \o "." \o (IF d.fp = <<>> THEN "0" ELSE Digits(d.fp))

\* ------------------------------------------------------------------------
\* FTreeItem objects live on a heap and are held through TSharedPtr; rc is
\* the reference count of the cell (0 = free memory).
\* ------------------------------------------------------------------------
FreeCell == [Key |-> "", Value |-> "", ValueType |-> "None", ChildItems |-> <<>>, rc |-> 0]

\* FTreeItem(EJson Type)
FTreeItemOfType(t) == [Key |-> "", Value |-> "", ValueType |-> t, ChildItems |-> <<>>, rc |-> 1]

\* FTreeItem(InKey, InValue, InValueType)
FTreeItemKeyed(k, v, t) == [Key |-> k, Value |-> v, ValueType |-> t, ChildItems |-> <<>>, rc |-> 1]

\* the first free cell of the heap, or the cell after its end
FirstFree(h) ==
    IF \E i \in 1..Len(h) : h[i].rc = 0
    THEN CHOOSE i \in 1..Len(h) : h[i].rc = 0 /\ \A j \in 1..(i - 1) : h[j].rc # 0
    ELSE Len(h) + 1

Place(h, cell, p) ==
    [h |-> IF p > Len(h) THEN Append(h, cell) ELSE [h EXCEPT ![p] = cell], p |-> p]

\* MakeShared<FTreeItem>(...): the new object takes the first free cell; the
\* returned pointer (p) is its only reference
MakeShared(h, cell) == Place(h, cell, FirstFree(h))

\* copying an array of shared pointers takes one reference per entry
RECURSIVE AddRefs(_, _)
AddRefs(h, ps) ==
    IF ps = <<>> THEN h
    ELSE AddRefs([h EXCEPT ![Head(ps)].rc = @ + 1], Tail(ps))

\* a TSharedPtr goes away; the last one destroys the item, which releases
\* the pointers in its ChildItems
RECURSIVE Release(_, _), ReleaseAll(_, _)
Release(h, p) ==
    IF h[p].rc > 1 THEN [h EXCEPT ![p].rc = @ - 1]
    ELSE ReleaseAll([h EXCEPT ![p] = FreeCell], h[p].ChildItems)

ReleaseAll(h, ps) ==
    IF ps = <<>> THEN h ELSE ReleaseAll(Release(h, Head(ps)), Tail(ps))

\* free cells at the end of the heap are returned to the system
RECURSIVE Trim(_)
Trim(h) == IF h # <<>> /\ h[Len(h)].rc = 0 THEN Trim(SubSeq(h, 1, Len(h) - 1)) ELSE h

\* To->ChildItems.Add(P)
AddItem(h, To, P) == [h EXCEPT ![To].ChildItems = Append(@, P), ![P].rc = @ + 1]

\* To->ChildItems.Append(From->ChildItems)
AppendChildItems(h, To, From) ==
    [AddRefs(h, h[From].ChildItems) EXCEPT ![To].ChildItems = @ \o h[From].ChildItems]

\* a copy that forgets the children of the parsed value
CopyChildItems_Never(h, To, From) == h

\* if (From->ChildItems.Num() > 0) To->ChildItems = From->ChildItems;
CopyChildItems(h, To, From) ==
    IF Len(h[From].ChildItems) > 0
    THEN [AddRefs(h, h[From].ChildItems) EXCEPT ![To].ChildItems = h[From].ChildItems]
    ELSE h

\* ------------------------------------------------------------------------
\* ParseNode.  An operator that allocates returns the heap it leaves (h) and
\* the pointer it made (p).
\* ------------------------------------------------------------------------
RECURSIVE ParseNode(_, _), ParseObjectMember(_, _, _), ParseArrayElement(_, _, _)
RECURSIVE ParseObjectMembers(_, _, _), ParseArrayElements(_, _, _)

\* Node->ChildItems.Add(Child), then the locals Child and Parsed go out of
\* scope; c is the keyed Child just made
LinkChild(c, Parsed, Node) ==
    Release(Release(AddItem(CopyChildItems(c.h, c.p, Parsed), Node, c.p), c.p), Parsed)

\* Child = MakeShared<FTreeItem>(Pair.Key, Parsed->Value, Parsed->ValueType);
\* r is what ParseNode(Pair.Value) returned
AddChild(r, Node, Key) ==
    LinkChild(MakeShared(r.h, FTreeItemKeyed(Key, r.h[r.p].Value, r.h[r.p].ValueType)), r.p, Node)

\* body of the loop over JsonValue->AsObject()->Values
ParseObjectMember(h, Node, Pair) == AddChild(ParseNode(h, Pair.Value), Node, Pair.Key)

\* (each loop looks at the heap the iterations before it left, h[Node] being
\* the live node under construction, so the iterations are computed in order)
ParseObjectMembers(h, Node, Pairs) ==
    IF Pairs = <<>> \/ h[Node].rc = 0 THEN h
    ELSE ParseObjectMembers(ParseObjectMember(h, Node, Head(Pairs)), Node, Tail(Pairs))

\* the flattening left out: every element is added itself
AddElement_NoFlatten(r, Node) == Release(AddItem(r.h, Node, r.p), r.p)

\* the else left out: an element with children is spliced and added as well
AddElement_AddAlso(r, Node) ==
    Release(AddItem(IF Len(r.h[r.p].ChildItems) > 0 THEN AppendChildItems(r.h, Node, r.p) ELSE r.h,
                    Node, r.p),
            r.p)

\* the if / else on Parsed->ChildItems.Num(), then the local Parsed goes out
\* of scope; r is what ParseNode(Element) returned
AddElement(r, Node) ==
    Release(IF Len(r.h[r.p].ChildItems) > 0
            THEN AppendChildItems(r.h, Node, r.p)
            ELSE AddItem(r.h, Node, r.p),
            r.p)

\* body of the loop over JsonValue->AsArray()
ParseArrayElement(h, Node, Element) == AddElement(ParseNode(h, Element), Node)

ParseArrayElements(h, Node, Elements) ==
    IF Elements = <<>> \/ h[Node].rc = 0 THEN h
    ELSE ParseArrayElements(ParseArrayElement(h, Node, Head(Elements)), Node, Tail(Elements))

\* Node->Value = v; Node->ValueType = t;
SetValue(n, v, t) == [h |-> [n.h EXCEPT ![n.p].Value = v, ![n.p].ValueType = t], p |-> n.p]

\* the switch on JsonValue->Type; n is the Node just made
ParseNodeSwitch(n, JsonValue) ==
    CASE JsonValue.Type = "Object" ->
           [h |-> ParseObjectMembers(n.h, n.p, JsonValue.Values), p |-> n.p]
      [] JsonValue.Type = "Array" ->
           [h |-> ParseArrayElements(n.h, n.p, JsonValue.elems), p |-> n.p]
      [] JsonValue.Type = "String" -> SetValue(n, JsonValue.str, "String")
      [] JsonValue.Type = "Number" ->
           SetValue(n, SanitizeFloat(TryGetNumber(JsonValue.lit)), "Number")
      [] JsonValue.Type = "Boolean" ->
           SetValue(n, IF JsonValue.b THEN "true" ELSE "false", "Boolean")
      [] JsonValue.Type = "Null" -> SetValue(n, "null", "Null")
      [] OTHER -> n

ParseNode(h, JsonValue) ==
    ParseNodeSwitch(MakeShared(h, FTreeItemOfType(JsonValue.Type)), JsonValue)

\* ------------------------------------------------------------------------
\* BuildTree: st is the pair of the heap (h) and _TreeItems (items)
\* ------------------------------------------------------------------------
\* BuildTree without the Reset: the old items stay in the list
ResetTreeItems_Keep(st) == st

\* _TreeItems.Reset()
ResetTreeItems(st) == [h |-> Trim(ReleaseAll(st.h, st.items)), items |-> <<>>]

\* _TreeItems.Add(r): the list takes over the pointer r.p
AddTreeItem(r, items) == [h |-> r.h, items |-> Append(items, r.p)]

\* _TreeItems.Add(ParseNode(Element))
BuildTreeAddParsed(st, Element) == AddTreeItem(ParseNode(st.h, Element), st.items)

\* _TreeItems.Add(Row), then the local Parsed goes out of scope; c is the
\* keyed Row just made
LinkRow(c, Parsed, items) ==
    [h |-> Release(CopyChildItems(c.h, c.p, Parsed), Parsed), items |-> Append(items, c.p)]

\* Row = MakeShared<FTreeItem>(Pair.Key, Parsed->Value, Parsed->ValueType);
\* r is what ParseNode(Pair.Value) returned
AddRow(r, items, Key) ==
    LinkRow(MakeShared(r.h, FTreeItemKeyed(Key, r.h[r.p].Value, r.h[r.p].ValueType)), r.p, items)

\* body of the loop over the root object's Values
BuildTreeObjectMember(st, Pair) == AddRow(ParseNode(st.h, Pair.Value), st.items, Pair.Key)

RECURSIVE BuildTreeArrayLoop(_, _), BuildTreeObjectLoop(_, _)
BuildTreeArrayLoop(st, Elements) ==
    IF Elements = <<>> \/ Len(st.items) > Len(st.h) THEN st
    ELSE BuildTreeArrayLoop(BuildTreeAddParsed(st, Head(Elements)), Tail(Elements))

BuildTreeObjectLoop(st, Pairs) ==
    IF Pairs = <<>> \/ Len(st.items) > Len(st.h) THEN st
    ELSE BuildTreeObjectLoop(BuildTreeObjectMember(st, Head(Pairs)), Tail(Pairs))

\* the three root cases
BuildTreeRoot(st, JsonValue) ==
    CASE JsonValue.Type = "Array"  -> BuildTreeArrayLoop(st, JsonValue.elems)
      [] JsonValue.Type = "Object" -> BuildTreeObjectLoop(st, JsonValue.Values)
      [] OTHER -> BuildTreeAddParsed(st, JsonValue)

BuildTree(h, items, JsonValue) ==
    BuildTreeRoot(ResetTreeItems([h |-> h, items |-> items]), JsonValue)

\* the tree below a pointer, as a value (for comparing trees)
RECURSIVE TreeOf(_, _)
TreeOf(h, p) ==
    [Key |-> h[p].Key, Value |-> h[p].Value, ValueType |-> h[p].ValueType,
     ChildItems |-> [i \in 1..Len(h[p].ChildItems) |-> TreeOf(h, h[p].ChildItems[i])]]

TreesOf(h, ps) == [i \in 1..Len(ps) |-> TreeOf(h, ps[i])]

\* ------------------------------------------------------------------------
\* Inputs: JSON values up to MaxLen entries per container
\* ------------------------------------------------------------------------
Keys == {"", "a"}

Pair(k, v) == [Key |-> k, Value |-> v]
One == JNumber(Lit(1, <<>>))

NumberLits == {Lit(1, <<>>), Lit(1, <<0>>), Lit(2, <<5>>), Lit(2, <<5, 0>>), Lit(10, <<>>)}

Primitives ==
    {JString(""), JString("s"), JBoolean(TRUE), JBoolean(FALSE), JNull}
        \cup {JNumber(l) : l \in NumberLits}

\* the primitives used as leaves of the generated containers
Atoms == {JString("s"), JNumber(Lit(1, <<>>))}

SeqsUpTo(S, n) == UNION {[1..k -> S] : k \in 0..n}

Arrays(S, n) == {JArray(es) : es \in SeqsUpTo(S, n)}

\* an object's Values is a map: the keys of its members are distinct
Objects(S, n) ==
    {JObject(ps) : ps \in {qs \in SeqsUpTo([Key : Keys, Value : S], n) :
                              \A i, j \in 1..Len(qs) : i # j => qs[i].Key # qs[j].Key}}

Level1 == Atoms \cup Arrays(Atoms, MaxLen) \cup Objects(Atoms, MaxLen)
Level2 == Arrays(Level1, MaxLen) \cup Objects(Level1, MaxLen)
Level3 == Arrays(Level2, 1)

\* some deeper nestings
DeepDocs ==
    { JArray(<<JArray(<<JObject(<<Pair("", JArray(<<One>>))>>)>>), One>>),
      JArray(<<JArray(<<JArray(<<JArray(<<One, JArray(<<>>)>>)>>)>>), JObject(<<>>)>>),
      JArray(<<JArray(<<JObject(<<Pair("a", JArray(<<JArray(<<JString("s")>>),
                                                    JObject(<<Pair("", JNull)>>)>>))>>)>>)>>),
      JObject(<<Pair("a", JObject(<<Pair("a", JArray(<<JObject(<<Pair("a", JArray(<<One, One>>))>>)>>))>>))>>) }

Docs == Primitives \cup Arrays(Primitives, 1) \cup Objects(Primitives, 1)
            \cup Level1 \cup Level2 \cup Level3 \cup DeepDocs

\* ------------------------------------------------------------------------
\* Strings handed to the widget.  An FString is modelled by its characters
\* and by what the engine's JSON reader makes of them: json.wf says that the
\* characters are well-formed JSON text and json.root is the value they
\* denote.
\* ------------------------------------------------------------------------
RECURSIVE Serialize(_), SerializeElems(_), SerializePairs(_)
Serialize(v) ==
    CASE v.Type = "String"  -> "\"" \o v.str \o "\""
      [] v.Type = "Number"  -> NumberText(v.lit)
      [] v.Type = "Boolean" -> IF v.b THEN "true" ELSE "false"
      [] v.Type = "Null"    -> "null"
      [] v.Type = "Array"   -> "[" \o SerializeElems(v.elems) \o "]"
      [] v.Type = "Object"  -> "{" \o SerializePairs(v.Values) \o "}"

SerializeElems(es) ==
    IF es = <<>> THEN ""
    ELSE Serialize(Head(es)) \o (IF Len(es) > 1 THEN "," ELSE "") \o SerializeElems(Tail(es))

SerializePairs(ps) ==
    IF ps = <<>> THEN ""
    ELSE "\"" \o Head(ps).Key \o "\":" \o Serialize(Head(ps).Value)
             \o (IF Len(ps) > 1 THEN "," ELSE "") \o SerializePairs(Tail(ps))

JsonText(v)  == [chars |-> Serialize(v), json |-> [wf |-> TRUE, root |-> v]]
PlainText(c) == [chars |-> c, json |-> [wf |-> FALSE, root |-> JNull]]

EmptyString == PlainText("")

\* the null TSharedPtr<FJsonValue>
NullJsonValue == [Type |-> "nullptr"]

\* documents given to the widget as raw strings
RootObjects ==
    { JObject(<<>>),
      JObject(<<Pair("a", One), Pair("", JString("s"))>>),
      JObject(<<Pair("a", JArray(<<One, JString("s")>>))>>),
      JObject(<<Pair("a", JArray(<<>>)), Pair("", JObject(<<>>))>>),
      JObject(<<Pair("a", JObject(<<Pair("a", JObject(<<Pair("", JNull)>>))>>))>>),
      JObject(<<Pair("a", JArray(<<JArray(<<JArray(<<One, JBoolean(TRUE)>>), JArray(<<>>)>>),
                                   JObject(<<Pair("a", JArray(<<One>>))>>)>>))>>),
      JObject(<<Pair("a", JArray(<<JObject(<<Pair("a", One)>>),
                                   JObject(<<Pair("a", JNumber(Lit(2, <<5, 0>>)))>>),
                                   JObject(<<>>)>>)),
                Pair("", JArray(<<JObject(<<Pair("", JArray(<<JNull>>))>>)>>))>>) }

RootOthers == { JArray(<<One, JArray(<<One>>)>>), JArray(<<>>), One, JString("s") }

FileNames == {"good.json", "list.json", "bad.json", "locked.json"}

\* the files on disk: whether FFileHelper::LoadFileToString can read the
\* file, and its contents
Disk ==
    [n \in FileNames |->
        CASE n = "good.json"   -> [readable |-> TRUE,
                                   content |-> JsonText(JObject(<<Pair("a", JArray(<<JArray(<<One>>), JNull>>))>>))]
          [] n = "list.json"   -> [readable |-> TRUE, content |-> JsonText(JArray(<<One>>))]
          [] n = "bad.json"    -> [readable |-> TRUE, content |-> PlainText("{\"a\":")]
          [] n = "locked.json" -> [readable |-> FALSE, content |-> EmptyString]]

Strings ==
    {JsonText(v) : v \in RootObjects \cup RootOthers}
        \cup {PlainText(n) : n \in FileNames}
        \cup {EmptyString, PlainText("missing.json"), PlainText("{oops")}

\* ------------------------------------------------------------------------
\* State
\* ------------------------------------------------------------------------
VARIABLES
    heap,           \* the FTreeItem objects
    _TreeItems,     \* pointers to the top-level items
    _JsonValue,     \* parsed JSON value root
    _JsonString,    \* raw JSON string content
    _JsonFilePath,  \* path to JSON file if reading from disk
    JsonInput,      \* input JSON string or file path (Blueprint property)
    _bValidJson,
    Node,           \* the pointer a direct ParseNode call returned (0: none)
    pc,             \* the operation that ran last
    arg,            \* history: the argument of the last InitJsonTree call
    parsed          \* history: the value of the last input that parsed

vars == <<heap, _TreeItems, _JsonValue, _JsonString, _JsonFilePath, JsonInput,
          _bValidJson, Node, pc, arg, parsed>>

\* FPaths::FileExists
FileExists(s) == s.chars \in FileNames

\* FJsonSerializer::Deserialize into a TSharedPtr<FJsonObject>: succeeds
\* only for text whose root is an object
DeserializeObject(s) == s.json.wf /\ s.json.root.Type = "Object"

\* FJsonSerializer::Deserialize into a TSharedPtr<FJsonValue>: the reader
\* takes an object or an array at the root
DeserializeValue(s) ==
    IF s.json.wf /\ s.json.root.Type \in {"Object", "Array"}
    THEN [ok |-> TRUE, value |-> s.json.root]
    ELSE [ok |-> FALSE, value |-> NullJsonValue]

IsValidJson(JsonString) == DeserializeObject(JsonString)

\* ok: the return value; value: what OutJsonValue holds afterwards
ParseJsonContents(JsonString, OutJsonValue) ==
    IF IsValidJson(JsonString)
    THEN LET d == DeserializeValue(JsonString)
         IN  [ok |-> d.ok, value |-> IF d.ok THEN d.value ELSE OutJsonValue]
    ELSE [ok |-> FALSE, value |-> OutJsonValue]

\* ok: the return value; string: what the JsonString argument holds afterwards
ReadJsonFile(FilePath, JsonString) ==
    IF Disk[FilePath.chars].readable
    THEN [ok |-> TRUE, string |-> Disk[FilePath.chars].content]
    ELSE [ok |-> FALSE, string |-> JsonString]

\* the value the input of an InitJsonTree call parses to, if it does
ParsesTo(s) ==
    LET text == IF FileExists(s)
                THEN (IF Disk[s.chars].readable THEN Disk[s.chars].content ELSE EmptyString)
                ELSE s
    IN  IF text.json.wf /\ text.json.root.Type = "Object" /\ (FileExists(s) => Disk[s.chars].readable)
        THEN text.json.root ELSE NullJsonValue

InitJsonTreeBody(JsonPathorString) ==
    LET file  == FileExists(JsonPathorString)
        read  == ReadJsonFile(JsonPathorString, _JsonString)
        raw   == IsValidJson(JsonPathorString)
        valid == IF file THEN read.ok ELSE raw
        str   == IF file THEN read.string ELSE IF raw THEN JsonPathorString ELSE _JsonString
        pj    == ParseJsonContents(str, _JsonValue)
        build == valid /\ pj.ok /\ pj.value # NullJsonValue
        bt    == BuildTree(heap, _TreeItems, pj.value)
    IN  /\ JsonInput' = IF file \/ raw THEN JsonPathorString ELSE JsonInput
        /\ _JsonFilePath' = IF file THEN JsonPathorString ELSE _JsonFilePath
        /\ _JsonString' = str
        /\ _bValidJson' = valid
        /\ _JsonValue' = IF valid THEN pj.value ELSE _JsonValue
        /\ heap' = IF build THEN bt.h ELSE heap
        /\ _TreeItems' = IF build THEN bt.items ELSE _TreeItems
        /\ arg' = JsonPathorString
        /\ parsed' = IF ParsesTo(JsonPathorString) # NullJsonValue
                     THEN ParsesTo(JsonPathorString) ELSE parsed
        /\ UNCHANGED Node

InitJsonTree ==
    \E s \in Strings : InitJsonTreeBody(s) /\ pc' = "InitJsonTree"

RebuildWidget ==
    InitJsonTreeBody(JsonInput) /\ pc' = "RebuildWidget"

\* the JsonInput property is written from Blueprint or the editor
SetJsonInput ==
    /\ \E s \in Strings : JsonInput' = s
    /\ pc' = "SetJsonInput"
    /\ UNCHANGED <<heap, _TreeItems, _JsonValue, _JsonString, _JsonFilePath,
                   _bValidJson, Node, arg, parsed>>

Init ==
    /\ heap = <<>>
    /\ _TreeItems = <<>>
    /\ _JsonValue = NullJsonValue
    /\ _JsonString = EmptyString
    /\ _JsonFilePath = EmptyString
    /\ JsonInput = EmptyString
    /\ _bValidJson \in BOOLEAN  \* the constructor leaves it unset
    /\ Node = 0
    /\ pc = "constructed"
    /\ arg = EmptyString
    /\ parsed = NullJsonValue

Next == InitJsonTree \/ RebuildWidget \/ SetJsonInput

Spec == Init /\ [][Next]_vars

\* ------------------------------------------------------------------------
\* The conversion on its own: ParseNode and BuildTree applied to a value
\* ------------------------------------------------------------------------
ConvInit ==
    /\ heap = <<>>
    /\ _TreeItems = <<>>
    /\ _JsonValue \in Docs
    /\ _JsonString = EmptyString
    /\ _JsonFilePath = EmptyString
    /\ JsonInput = EmptyString
    /\ _bValidJson = FALSE
    /\ Node = 0
    /\ pc = "value"
    /\ arg = EmptyString
    /\ parsed = NullJsonValue

CallParseNode ==
    /\ pc = "value"
    /\ LET r == ParseNode(heap, _JsonValue)
       IN  heap' = r.h /\ Node' = r.p
    /\ pc' = "ParseNode"
    /\ UNCHANGED <<_TreeItems, _JsonValue, _JsonString, _JsonFilePath, JsonInput,
                   _bValidJson, arg, parsed>>

CallBuildTree ==
    /\ pc = "value"
    /\ LET bt == BuildTree(heap, _TreeItems, _JsonValue)
       IN  heap' = bt.h /\ _TreeItems' = bt.items
    /\ pc' = "BuildTree"
    /\ UNCHANGED <<_JsonValue, _JsonString, _JsonFilePath, JsonInput,
                   _bValidJson, Node, arg, parsed>>

ConvNext == CallParseNode \/ CallBuildTree

ConvSpec == ConvInit /\ [][ConvNext]_vars

\* ------------------------------------------------------------------------
\* Properties
\* ------------------------------------------------------------------------
\* the conversion of a value by ParseNode on a fresh heap, as a tree
Conv(v) == LET r == ParseNode(<<>>, v) IN TreeOf(r.h, r.p)

\* the top-level items BuildTree makes of a value, as trees
ConvRoot(v) == LET bt == BuildTree(<<>>, <<>>, v) IN TreesOf(bt.h, bt.items)

Items == TreesOf(heap, _TreeItems)

IsPrimitive(v) == v.Type \in {"String", "Number", "Boolean", "Null"}

\* the row of an object member: the member's key on the conversion of its value
RowOf(pair) ==
    LET c == Conv(pair.Value)
    IN  [Key |-> pair.Key, Value |-> c.Value, ValueType |-> c.ValueType, ChildItems |-> c.ChildItems]

KeyedRows(rows, pairs) ==
    /\ Len(rows) = Len(pairs)
    /\ \A i \in 1..Len(pairs) : rows[i] = RowOf(pairs[i])

\* C1: an object with n members converts to exactly n children in member
\* order, at the root (BuildTree) and nested (ParseNode); the i-th child has
\* the i-th member's key and the Value, type tag and child list of the
\* conversion of that member's value.
C1_ObjectMembers ==
    /\ (pc = "ParseNode" /\ _JsonValue.Type = "Object")
          => KeyedRows(TreeOf(heap, Node).ChildItems, _JsonValue.Values)
    /\ (pc = "BuildTree" /\ _JsonValue.Type = "Object")
          => KeyedRows(Items, _JsonValue.Values)

C1_Witness ==
    /\ pc = "ParseNode"
    /\ _JsonValue.Type = "Object"
    /\ Len(_JsonValue.Values) = 2
    /\ _JsonValue.Values[1].Key = "a"
    /\ Len(TreeOf(heap, Node).ChildItems) = 2
    /\ Len(TreeOf(heap, Node).ChildItems[2].ChildItems) = 2

\* what an array element contributes to the array node: the children of its
\* conversion, or the conversion itself when it has none
Contribution(e) == IF Len(Conv(e).ChildItems) > 0 THEN Conv(e).ChildItems ELSE <<Conv(e)>>

RECURSIVE Spliced(_)
Spliced(es) == IF es = <<>> THEN <<>> ELSE Contribution(Head(es)) \o Spliced(Tail(es))

HasChildren(t) == t.ValueType \in {"Object", "Array"} /\ Len(t.ChildItems) > 0

\* the members of the objects an array holds directly or through nested arrays
RECURSIVE MembersUnder(_)
MembersUnder(v) ==
    IF v.Type # "Array" THEN {}
    ELSE UNION {IF v.elems[i].Type = "Object"
                THEN {v.elems[i].Values[j] : j \in 1..Len(v.elems[i].Values)}
                ELSE MembersUnder(v.elems[i]) : i \in 1..Len(v.elems)}

ArraySplices ==
    (pc = "ParseNode" /\ _JsonValue.Type = "Array")
        => TreeOf(heap, Node).ChildItems = Spliced(_JsonValue.elems)

\* C2 as stated: ParseNode splices the children of every converted element, in
\* element order, and adds an element itself only when its conversion has no
\* children; so no direct child of the array node is a key-less object or
\* array node that has children.
C2_Original ==
    /\ ArraySplices
    /\ (pc = "ParseNode" /\ _JsonValue.Type = "Array")
          => \A i \in 1..Len(TreeOf(heap, Node).ChildItems) :
                LET c == TreeOf(heap, Node).ChildItems[i]
                IN  ~(c.Key = "" /\ HasChildren(c))

\* C2 amended: the splicing as stated; every direct child of the array node
\* that is an object or array node with children is the row of an object
\* member, and it is key-less only when that member's key is the empty string.
C2_ArrayFlattens ==
    /\ ArraySplices
    /\ (pc = "ParseNode" /\ _JsonValue.Type = "Array")
          => \A i \in 1..Len(TreeOf(heap, Node).ChildItems) :
                LET c == TreeOf(heap, Node).ChildItems[i]
                IN  HasChildren(c) => \E m \in MembersUnder(_JsonValue) : c = RowOf(m)

C2_Witness ==
    /\ pc = "ParseNode"
    /\ _JsonValue.Type = "Array"
    /\ Len(_JsonValue.elems) = 2
    /\ _JsonValue.elems[1].Type = "Array"
    /\ Len(_JsonValue.elems[1].elems) = 1
    /\ _JsonValue.elems[1].elems[1].Type = "Object"
    /\ Len(heap[Node].ChildItems) = 2
    /\ heap[heap[Node].ChildItems[1]].Key = ""
    /\ HasChildren(heap[heap[Node].ChildItems[1]])

\* the text FString::SanitizeFloat prints for the number literals of the model
NumberShown(l) ==
    CASE l = Lit(1, <<>>)     -> "1.0"
      [] l = Lit(1, <<0>>)    -> "1.0"
      [] l = Lit(2, <<5>>)    -> "2.5"
      [] l = Lit(2, <<5, 0>>) -> "2.5"
      [] l = Lit(10, <<>>)    -> "10.0"

\* a primitive's leaf, its number shown as num[literal]
Leaf(v, num) ==
    [Key |-> "",
     Value |-> CASE v.Type = "String"  -> v.str
                 [] v.Type = "Number"  -> num[v.lit]
                 [] v.Type = "Boolean" -> IF v.b THEN "true" ELSE "false"
                 [] v.Type = "Null"    -> "null",
     ValueType |-> v.Type,
     ChildItems |-> <<>>]

PrimitiveLeaves(num) ==
    /\ (pc = "ParseNode" /\ IsPrimitive(_JsonValue))
          => TreeOf(heap, Node) = Leaf(_JsonValue, num)
    /\ (pc = "ParseNode" /\ _JsonValue.Type = "Object")
          => \A i \in 1..Len(_JsonValue.Values) :
                IsPrimitive(_JsonValue.Values[i].Value)
                   => TreeOf(heap, Node).ChildItems[i]
                         = [Leaf(_JsonValue.Values[i].Value, num) EXCEPT !.Key = _JsonValue.Values[i].Key]

\* C3 as stated: a primitive converts to a leaf with the primitive's type tag
\* whose Value is the string itself, the number's text, "true" or "false", or
\* "null"; the keyed row of a primitive member keeps that Value and type tag.
C3_Original == PrimitiveLeaves([l \in NumberLits |-> NumberText(l)])

\* C3 amended: as stated, except that a number's Value is its value printed
\* by SanitizeFloat, with at least one fractional digit and no trailing
\* zeros ("1.0" for 1, "2.5" for 2.50), not the number's text.
C3_PrimitiveLeaf == PrimitiveLeaves([l \in NumberLits |-> NumberShown(l)])

C3_Witness ==
    /\ pc = "ParseNode"
    /\ _JsonValue = JNumber(Lit(2, <<5, 0>>))
    /\ heap[Node].Value = "2.5"

\* ------------------------------------------------------------------------
\* the items reachable from _TreeItems
RECURSIVE Closure(_)
Closure(S) ==
    LET T == S \cup UNION {{heap[p].ChildItems[i] : i \in 1..Len(heap[p].ChildItems)} : p \in S}
    IN  IF T = S THEN S ELSE Closure(T)

Range(ps) == {ps[i] : i \in 1..Len(ps)}

Reachable == Closure(Range(_TreeItems))

Occurrences(ps, p) == Cardinality({i \in 1..Len(ps) : ps[i] = p})

RECURSIVE Sum(_, _)
Sum(f, S) == IF S = {} THEN 0 ELSE LET x == CHOOSE y \in S : TRUE IN f[x] + Sum(f, S \ {x})

\* the number of places that hold a pointer to p: _TreeItems and the child
\* lists of the reachable items
References(p) ==
    Occurrences(_TreeItems, p)
       + Sum([q \in Reachable |-> Occurrences(heap[q].ChildItems, p)], Reachable)

\* C4: after any sequence of InitJsonTree calls the items reachable from
\* _TreeItems form a forest: no item is below itself, and every reachable
\* item is referenced exactly once, by one child list or by _TreeItems.
C4_Forest ==
    \A p \in Reachable :
        /\ heap[p].rc > 0
        /\ References(p) = 1
        /\ p \notin Closure(Range(heap[p].ChildItems))

C4_Witness ==
    /\ pc = "InitJsonTree"
    /\ \E p \in Range(_TreeItems) :
          /\ heap[p].Key = "a"
          /\ heap[p].ValueType = "Array"
          /\ Len(heap[p].ChildItems) = 4
          /\ \E q \in Range(heap[p].ChildItems) : heap[q].Key = "a" /\ Len(heap[q].ChildItems) = 1

\* ------------------------------------------------------------------------
\* the JSON text an InitJsonTree call obtains from its argument: the
\* contents of the file, or the raw string
Obtained(s) ==
    IF FileExists(s)
    THEN (IF Disk[s.chars].readable THEN Disk[s.chars].content ELSE EmptyString)
    ELSE s

\* C5 as stated: InitJsonTree builds the display tree of valid JSON text,
\* given as a raw string or as the contents of a readable file, whatever the
\* kind of its root value (object, array or single primitive).
C5_AnyRoot ==
    (pc \in {"InitJsonTree", "RebuildWidget"} /\ Obtained(arg).json.wf)
        => Items = ConvRoot(Obtained(arg).json.root)

\* C6 as stated: after every InitJsonTree call _bValidJson is true exactly
\* when the JSON text the call obtained is valid JSON that was parsed into
\* the tree.
C6_ValidFlag ==
    pc \in {"InitJsonTree", "RebuildWidget"}
        => (_bValidJson <=> (/\ Obtained(arg).json.wf
                             /\ _JsonValue = Obtained(arg).json.root
                             /\ Items = ConvRoot(Obtained(arg).json.root)))

\* the index of the element each direct child of an array node comes from
RECURSIVE ElementIndexes(_, _)
ElementIndexes(es, i) ==
    IF es = <<>> THEN <<>>
    ELSE [j \in 1..Len(Contribution(Head(es))) |-> i] \o ElementIndexes(Tail(es), i + 1)

\* C7 as stated: every node produced for the i-th element of an array
\* carries the (zero-based) index i as its Key.
C7_IndexKeys ==
    (pc = "ParseNode" /\ _JsonValue.Type = "Array")
        => LET kids == TreeOf(heap, Node).ChildItems
               idx  == ElementIndexes(_JsonValue.elems, 0)
           IN  /\ Len(kids) = Len(idx)
               /\ \A j \in 1..Len(kids) : kids[j].Key = ToString(idx[j])

\* C8 as stated: for every array, the top-level item list BuildTree makes of
\* it as the root equals the child list ParseNode makes of it when nested.
C8_RootFlattens ==
    (pc = "BuildTree" /\ _JsonValue.Type = "Array")
        => Items = Conv(_JsonValue).ChildItems

\* ------------------------------------------------------------------------
\* an argument that is neither an existing file nor JSON text the widget
\* accepts
Rejected(s) == ~FileExists(s) /\ ~(s.json.wf /\ s.json.root.Type = "Object")

ItemsOfLastParsed ==
    Items = IF parsed = NullJsonValue THEN <<>> ELSE ConvRoot(parsed)

RejectedCallFrame ==
    (pc' \in {"InitJsonTree", "RebuildWidget"} /\ Rejected(arg'))
        => /\ UNCHANGED <<heap, _TreeItems, _JsonValue, _JsonString, JsonInput>>
           /\ _bValidJson' = FALSE

\* C9: after any sequence of InitJsonTree and RebuildWidget calls _TreeItems
\* is the conversion of the most recent input that parsed (empty if none
\* did), and a call whose input is neither an existing file nor valid JSON
\* leaves _TreeItems, _JsonValue, _JsonString and JsonInput unchanged and
\* sets _bValidJson to false.
C9_LastParsed == []ItemsOfLastParsed /\ [][RejectedCallFrame]_vars

C9_Witness ==
    /\ pc = "InitJsonTree"
    /\ Rejected(arg)
    /\ ~_bValidJson
    /\ Len(_TreeItems) = 2
    /\ parsed # NullJsonValue
====
